---- MODULE Spec2Model ----
(***************************************************************************)
(* Session lifecycle and concurrency core of the Rubix44 recorder API      *)
(* server: the start / stop request handlers of api_server.py, the worker  *)
(* thread start_recording_in_thread, the capture operation                 *)
(* AudioRecorder.record_with_playback of rubix_recorder.py, and the        *)
(* delete_recording handler that removes output files from disk, and the   *)
(* status handler get_recording_status with RecordingSession.to_dict.      *)
(*                                                                         *)
(* Every `with recording_lock:` block that writes is modelled by an        *)
(* acquire step followed by the steps of its body, the last of which       *)
(* releases the lock; the status handler, one block that only reads, is    *)
(* one step taken when the lock is free.  Code outside a lock block runs   *)
(* in steps that do not touch the lock.                                    *)
(*                                                                         *)
(* Spec has no step that advances the clock: it describes the runs that    *)
(* fit in one second of wall-clock time, in which every timestamp taken    *)
(* is the same and the requested duration never expires (the poll loop     *)
(* ends by a stop flag, by the device finishing or by an exception).       *)
(* SpecStatus follows one start request with the clock advancing and       *)
(* status requests at any moment; FairSpec follows one start request       *)
(* under fair scheduling.                                                  *)
(*                                                                         *)
(* The other parts of the server have their own specifications: SpecCrash  *)
(* the crash tracker of logging_system.py, SpecLogs and SpecRead its log   *)
(* file calls,                                                             *)
(* SpecTransfer and SpecConcurrent the remote transfer, SpecConfig the     *)
(* answers that show the configuration, SpecPlayback the playback buffer.  *)
(***************************************************************************)
EXTENDS Integers, Sequences, FiniteSets, TLC

\* ---------------------------------------------------------------- bounds
MaxRequests == 2      \* start requests issued over a run
PollCap == 3          \* the count of poll iterations saturates here
MaxTime == 2          \* the wall clock runs over 0..MaxTime (seconds)
MaxCrashes == 2       \* crash records kept in the crash tracker
MaxShutdowns == 2     \* clean shutdowns counted by the crash tracker
MaxFiles == 2         \* file names of the log directory
MaxLines == 4         \* lines of a log file, and lines asked of read_log
MaxSecrets == 2       \* values a stored password can have
MaxSamples == 12      \* samples of a playback file
MaxDuration == 3      \* requested duration of a capture, in seconds
MaxRate == 3          \* sample rate of a playback file, samples a second

Req == 1..MaxRequests

\* ------------------------------------------------------------- constants
None == -1            \* Python's None for the slot and for timestamps
default_duration == 3600    \* DEFAULT_CONFIG["default_duration"], seconds
NoError == "None"     \* Python's None for RecordingSession.error

\* the three output files of one capture, in the order the code names them
Suffixes == <<"_stereo.wav", "_ch1.wav", "_ch2.wav">>

Terminal == {"completed", "error", "stopped"}

VARIABLES
    now,                        \* datetime.now() / time.time(), in seconds
    current_recording_session,  \* the slot: None or the session in it
    recording_lock,             \* the thread holding recording_lock
    session,                    \* the RecordingSession objects, by request
    should_stop,                \* AudioRecorder.should_stop, by session
    hpc,                        \* position of each start request handler
    wpc,                        \* position of each worker thread
    wloc,                       \* locals of each worker thread
    stop_pc,                    \* position of the stop request handler
    stop_response,              \* response of the stop request, once given
    status_response,            \* response of the last status request
    disk,                       \* output files present in recordings/
    polls_after_stop,           \* poll iterations begun after a stop ack
    crash_file,                 \* logs/.crash_tracker.json on disk
    crash_data,                 \* LoggingSystem.crash_data of the process
    proc,                       \* the server process: up, or how it ended
    crash_history,              \* the crash records appended so far
    storage_config,             \* config["storage_server"]
    transfer,                   \* the transfer_recording call in progress
    log_dir,                    \* the files of the log directory, by name
    log_result,                 \* the last call of the log manager
    password,                   \* config["storage_server"]["password"]
    config_response,            \* the last response of a /config handler
    playback                    \* the last buffer handed to sd.play

\* the crash tracker of logging_system.py
crash_vars == <<crash_file, crash_data, proc, crash_history>>

\* the recorder of api_server.py and rubix_recorder.py
core_vars == <<current_recording_session, recording_lock, session,
               should_stop, hpc, wpc, wloc, stop_pc, stop_response,
               status_response, disk, polls_after_stop>>

vars == <<now, current_recording_session, recording_lock, session,
          should_stop, hpc, wpc, wloc, stop_pc, stop_response,
          status_response, disk, polls_after_stop, crash_file, crash_data,
          proc, crash_history, storage_config, transfer, log_dir,
          log_result, password, config_response, playback>>

\* the log manager of logging_system.py
log_vars == <<log_dir, log_result>>

\* the password of the storage server and the answers that show the
\* configuration
config_vars == <<password, config_response>>

\* the parts of the server outside the recorder, the crash tracker and
\* the transfer
aux_vars == <<log_vars, config_vars, playback>>

\* the remote transfer of api_server.py
transfer_vars == <<storage_config, transfer>>

\* the recorder without the files on disk
session_vars == <<current_recording_session, recording_lock, session,
                  should_stop, hpc, wpc, wloc, stop_pc, stop_response,
                  status_response, polls_after_stop>>

\* ------------------------------------------------------------ the lock
Free == <<"free", 0>>
StartThread(r) == <<"start", r>>
WorkerThread(r) == <<"worker", r>>
StopThread == <<"stop", 0>>

\* ------------------------------------------------------- session objects
NoSession ==
    [status |-> "absent", id |-> None, start_time |-> None,
     end_time |-> None, duration |-> 0, files |-> <<>>, error |-> NoError,
     recorder |-> FALSE, actual_duration |-> 0]

\* RecordingSession.__init__ for a request that leaves duration, sample
\* rate and prefix to the configuration
RecordingSession ==
    [status |-> "initialized", id |-> now, start_time |-> None,
     end_time |-> None, duration |-> default_duration, files |-> <<>>, error |-> NoError,
     recorder |-> FALSE, actual_duration |-> 0]

\* the locals of a worker thread; a local that is no longer read is reset
NoLocals ==
    [success |-> FALSE, timestamp |-> None, loop_start |-> None,
     loop_end |-> "none", halt |-> "none", vidx |-> 0, verified |-> <<>>]

\* an output file {recordings}/{prefix}_{timestamp}{suffix}
File(ts, i) == [ts |-> ts, suffix |-> Suffixes[i]]
\* an expected path, as listed before verification
Path(ts, i) == [kind |-> "path", file |-> File(ts, i)]
\* the metadata record of a file that os.stat found
Meta(ts, i) == [kind |-> "meta", file |-> File(ts, i)]

\* no status request has been answered yet
NoResponse ==
    [kind |-> "none", sid |-> None, status |-> "none", end_time |-> None,
     files |-> <<>>, has_elapsed |-> FALSE, elapsed |-> 0]

\* {'crashes': [], 'clean_shutdowns': 0}, read with the defaults of
\* .get('running', False), .get('last_start') and .get('last_shutdown')
DefaultCrashData ==
    [crashes |-> <<>>, clean_shutdowns |-> 0, running |-> FALSE,
     last_start |-> None, last_shutdown |-> None]

\* DEFAULT_CONFIG["storage_server"]; host, username and remote_path are
\* modelled by their truth value (a non-empty string is present)
DefaultStorageConfig ==
    [enabled |-> FALSE, host |-> FALSE, username |-> FALSE,
     remote_path |-> FALSE, protocol |-> "scp"]

\* the result of one transfer command or upload, before any was made
NoOutcome == [kind |-> "none", code |-> 0]

\* the locals of transfer_recording, before a call
NoTransfer ==
    [pc |-> "idle", response |-> "none", session_id |-> None,
     protocol |-> "scp",
     delete_after_transfer |-> FALSE, files_to_transfer |-> <<>>, idx |-> 0,
     transferred_files |-> <<>>, failed_files |-> <<>>,
     deleted_files |-> <<>>, last_outcome |-> NoOutcome]

\* no file of that name
Absent == [kind |-> "absent", mtime |-> 0]

\* the log manager before its first call
NoLogResult ==
    [op |-> "none", days |-> 0, deleted_files |-> <<>>, deleted_count |-> 0,
     L |-> 0, lines |-> 0, offset |-> 0, returned |-> <<>>]

\* the parts outside the recorder as they are when the server starts
\* with an empty log directory
\* DEFAULT_CONFIG["storage_server"] has no password key
NoPassword == [kind |-> "absent", value |-> 0]

\* no /config request was answered yet
NoConfigResponse ==
    [op |-> "none", code |-> 0, storage_server |-> DefaultStorageConfig,
     password |-> NoPassword]

\* nothing was played yet
NoPlayback ==
    [op |-> "none", L |-> 0, duration |-> 0, playback_sr |-> 0,
     buffer |-> <<>>]

InitAux ==
    /\ playback = NoPlayback
    /\ log_dir = [n \in 1..MaxFiles |-> Absent]
    /\ log_result = NoLogResult
    /\ password = NoPassword
    /\ config_response = NoConfigResponse

Init ==
    /\ InitAux
    /\ now = 0
    /\ current_recording_session = None
    /\ recording_lock = Free
    /\ session = [r \in Req |-> NoSession]
    /\ should_stop = [r \in Req |-> FALSE]
    /\ hpc = [r \in Req |-> "idle"]
    /\ wpc = [r \in Req |-> "none"]
    /\ wloc = [r \in Req |-> NoLocals]
    /\ stop_pc = "idle"
    /\ stop_response = "none"
    /\ status_response = NoResponse
    /\ disk = {}
    /\ polls_after_stop = [r \in Req |-> 0]
    /\ crash_file = [kind |-> "absent", data |-> DefaultCrashData]
    /\ crash_data = DefaultCrashData
    /\ proc = "none"
    /\ crash_history = <<>>
    /\ storage_config = DefaultStorageConfig
    /\ transfer = NoTransfer

\* ------------------------------------------------------ start_recording
\* the condition of the admission check
SlotRecording ==
    /\ current_recording_session /= None
    /\ session[current_recording_session].status = "recording"

\* POST /recordings/start enters `with recording_lock:`
start_recording_acquire(r) ==
    /\ hpc[r] = "idle"
    /\ \A q \in Req : q < r => hpc[q] /= "idle"
    /\ recording_lock = Free
    /\ recording_lock' = StartThread(r)
    /\ hpc' = [hpc EXCEPT ![r] = "locked"]
    /\ UNCHANGED <<aux_vars, crash_vars, transfer_vars, now, status_response, current_recording_session, session, should_stop,
                   wpc, wloc, stop_pc, stop_response, disk,
                   polls_after_stop>>

\* a rejection that also empties the slot
start_reject_clearing_slot(r) ==
    /\ hpc' = [hpc EXCEPT ![r] = "rejected"]
    /\ recording_lock' = Free
    /\ current_recording_session' = None
    /\ UNCHANGED <<aux_vars, crash_vars, transfer_vars, now, status_response, session, should_stop, wpc, wloc, stop_pc,
                   stop_response, disk, polls_after_stop>>

\* the slot holds a recording session: 400 "Recording already in progress"
start_reject(r) ==
    /\ hpc' = [hpc EXCEPT ![r] = "rejected"]
    /\ recording_lock' = Free
    /\ UNCHANGED <<aux_vars, crash_vars, transfer_vars, now, status_response, current_recording_session, session, should_stop,
                   wpc, wloc, stop_pc, stop_response, disk,
                   polls_after_stop>>

\* the check passes: the lock is released and the handler goes on
start_pass(r) ==
    /\ hpc' = [hpc EXCEPT ![r] = "validate"]
    /\ recording_lock' = Free
    /\ UNCHANGED <<aux_vars, crash_vars, transfer_vars, now, status_response, current_recording_session, session, should_stop,
                   wpc, wloc, stop_pc, stop_response, disk,
                   polls_after_stop>>

\* the admission check, inside the lock
start_recording_check(r) ==
    /\ hpc[r] = "locked"
    /\ recording_lock = StartThread(r)
    /\ IF SlotRecording THEN start_reject(r) ELSE start_pass(r)

start_invalid_after_create(r) ==
    /\ session' = [session EXCEPT ![r] = RecordingSession]
    /\ hpc' = [hpc EXCEPT ![r] = "invalid"]
    /\ UNCHANGED <<aux_vars, crash_vars, transfer_vars, now, status_response,
                   current_recording_session, recording_lock,
                   should_stop, wpc, wloc, stop_pc, stop_response, disk,
                   polls_after_stop>>

\* request validation fails: 400 / 404, nothing is created
start_invalid(r) ==
    /\ hpc' = [hpc EXCEPT ![r] = "invalid"]
    /\ UNCHANGED <<aux_vars, crash_vars, transfer_vars, now, status_response, current_recording_session, recording_lock, session,
                   should_stop, wpc, wloc, stop_pc, stop_response, disk,
                   polls_after_stop>>

\* the session is created and its worker thread started
start_create(r) ==
    /\ session' = [session EXCEPT ![r] = RecordingSession]
    /\ wpc' = [wpc EXCEPT ![r] = "begin"]
    /\ hpc' = [hpc EXCEPT ![r] = "respond"]
    /\ UNCHANGED <<aux_vars, crash_vars, transfer_vars, now, status_response, current_recording_session, recording_lock,
                   should_stop, wloc, stop_pc, stop_response, disk,
                   polls_after_stop>>

\* the rest of the handler, outside the lock
start_recording_create(r) ==
    /\ hpc[r] = "validate"
    /\ \/ start_invalid(r)
       \/ start_create(r)

\* session.to_dict() is evaluated for the log and for the body of the 202
\* response, outside any lock block, and the handler returns
start_recording_respond(r) ==
    /\ hpc[r] = "respond"
    /\ hpc' = [hpc EXCEPT ![r] = "accepted"]
    /\ UNCHANGED <<aux_vars, crash_vars, transfer_vars, now, status_response, current_recording_session,
                   recording_lock, session, should_stop, wpc, wloc, stop_pc,
                   stop_response, disk, polls_after_stop>>

\* -------------------------------------------- start_recording_in_thread
\* the worker enters its first `with recording_lock:`
thread_begin_acquire(r) ==
    /\ wpc[r] = "begin"
    /\ recording_lock = Free
    /\ recording_lock' = WorkerThread(r)
    /\ wpc' = [wpc EXCEPT ![r] = "begin_locked"]
    /\ UNCHANGED <<aux_vars, crash_vars, transfer_vars, now, status_response, current_recording_session, session, should_stop,
                   hpc, wloc, stop_pc, stop_response, disk,
                   polls_after_stop>>

\* the worker installs its session in the slot and marks it recording
thread_set_recording(r) ==
    /\ wpc[r] = "begin_locked"
    /\ recording_lock = WorkerThread(r)
    /\ current_recording_session' = r
    /\ session' = [session EXCEPT ![r].status = "recording",
                                  ![r].start_time = now]
    /\ recording_lock' = Free
    /\ wpc' = [wpc EXCEPT ![r] = "create"]
    /\ UNCHANGED <<aux_vars, crash_vars, transfer_vars, now, status_response, should_stop, hpc, wloc, stop_pc, stop_response,
                   disk, polls_after_stop>>

\* the worker creates its AudioRecorder and stores it in the session
thread_create_recorder(r) ==
    /\ wpc[r] = "create"
    /\ should_stop' = [should_stop EXCEPT ![r] = FALSE]
    /\ session' = [session EXCEPT ![r].recorder = TRUE]
    /\ wpc' = [wpc EXCEPT ![r] = "rec_load"]
    /\ UNCHANGED <<aux_vars, crash_vars, transfer_vars, now, status_response, current_recording_session, recording_lock, hpc,
                   wloc, stop_pc, stop_response, disk, polls_after_stop>>

\* --------------------------------- AudioRecorder.record_with_playback
\* the timestamp is taken and the playback file is read
rwp_load(r) ==
    /\ wpc[r] = "rec_load"
    /\ \/ /\ wloc' = [wloc EXCEPT ![r].timestamp = now]
          /\ wpc' = [wpc EXCEPT ![r] = "rec_dev"]
       \/ \* sf.read raises: return False
          /\ wloc' = [wloc EXCEPT ![r] = NoLocals]
          /\ wpc' = [wpc EXCEPT ![r] = "fin"]
    /\ UNCHANGED <<aux_vars, crash_vars, transfer_vars, now, status_response, current_recording_session, recording_lock, session,
                   should_stop, hpc, stop_pc, stop_response, disk,
                   polls_after_stop>>

\* the input and output devices are resolved
rwp_devices(r) ==
    /\ wpc[r] = "rec_dev"
    /\ \/ /\ wpc' = [wpc EXCEPT ![r] = "rec_start"]
          /\ UNCHANGED wloc
       \/ \* RuntimeError("Could not find Rubix44 ... device!") escapes
          /\ wpc' = [wpc EXCEPT ![r] = "exc"]
          /\ wloc' = [wloc EXCEPT ![r] = NoLocals]
    /\ UNCHANGED <<aux_vars, crash_vars, transfer_vars, now, status_response, current_recording_session, recording_lock, session,
                   should_stop, hpc, stop_pc, stop_response, disk,
                   polls_after_stop>>

\* playback is launched and the capture started
rwp_start(r) ==
    /\ wpc[r] = "rec_start"
    /\ \/ /\ wloc' = [wloc EXCEPT ![r].loop_start = now]
          /\ wpc' = [wpc EXCEPT ![r] = "rec_poll"]
       \/ \* sd.rec raises inside the try: return False
          /\ wloc' = [wloc EXCEPT ![r] = NoLocals]
          /\ wpc' = [wpc EXCEPT ![r] = "fin"]
    /\ UNCHANGED <<aux_vars, crash_vars, transfer_vars, now, status_response, current_recording_session, recording_lock, session,
                   should_stop, hpc, stop_pc, stop_response, disk,
                   polls_after_stop>>

\* the condition of the poll loop
PollContinues(r) ==
    /\ ~should_stop[r]
    /\ now - wloc[r].loop_start < session[r].duration

\* polls_after_stop counts the iterations entered after a stop request
\* was acknowledged for the session
CountPoll(r) ==
    IF session[r].status = "stopped" /\ polls_after_stop[r] < PollCap
    THEN [polls_after_stop EXCEPT ![r] = @ + 1]
    ELSE polls_after_stop

\* the while condition is evaluated
rwp_poll_test(r) ==
    /\ wpc[r] = "rec_poll"
    /\ IF PollContinues(r)
       THEN /\ wpc' = [wpc EXCEPT ![r] = "rec_sleep"]
            /\ polls_after_stop' = CountPoll(r)
            /\ UNCHANGED wloc
       ELSE /\ wpc' = [wpc EXCEPT ![r] = "rec_after"]
            /\ wloc' = [wloc EXCEPT ![r].loop_end =
                           IF should_stop[r] THEN "stop" ELSE "expired"]
            /\ UNCHANGED polls_after_stop
    /\ UNCHANGED <<aux_vars, crash_vars, transfer_vars, now, status_response, current_recording_session, recording_lock, session,
                   should_stop, hpc, stop_pc, stop_response, disk>>

\* the device is still active: the loop goes round
rwp_poll_continue(r) ==
    /\ wpc' = [wpc EXCEPT ![r] = "rec_poll"]
    /\ UNCHANGED wloc

\* the device reports it finished: break
rwp_poll_break(r) ==
    /\ wpc' = [wpc EXCEPT ![r] = "rec_after"]
    /\ wloc' = [wloc EXCEPT ![r].loop_end = "natural"]

\* the status query raises: return False
rwp_poll_raise(r) ==
    /\ wloc' = [wloc EXCEPT ![r] = NoLocals]
    /\ wpc' = [wpc EXCEPT ![r] = "fin"]

\* the loop body: sleep 100 ms, then look at the device
rwp_poll_sleep(r) ==
    /\ wpc[r] = "rec_sleep"
    /\ \/ rwp_poll_continue(r)
       \/ rwp_poll_break(r)
       \/ rwp_poll_raise(r)
    /\ UNCHANGED <<aux_vars, crash_vars, transfer_vars, now, status_response, current_recording_session, recording_lock, session,
                   should_stop, hpc, stop_pc, stop_response, disk,
                   polls_after_stop>>

DeviceCall_wait_always(r) == "wait"

\* `if self.should_stop: sd.stop() else: sd.wait()`
DeviceCall(r) == IF should_stop[r] THEN "stop" ELSE "wait"

\* the device call that raised
Raising(call) == IF call = "stop" THEN "stop_raised" ELSE "wait_raised"

\* after the loop: sd.stop() if the flag is set, sd.wait() otherwise
rwp_after_loop(r) ==
    /\ wpc[r] = "rec_after"
    /\ \/ /\ wpc' = [wpc EXCEPT ![r] = "rec_save"]
          /\ wloc' = [wloc EXCEPT ![r].halt = DeviceCall(r)]
       \/ \* sd.stop() or sd.wait() raises: return False
          /\ wloc' = [wloc EXCEPT ![r] =
                         [NoLocals EXCEPT !.halt = Raising(DeviceCall(r))]]
          /\ wpc' = [wpc EXCEPT ![r] = "fin"]
    /\ UNCHANGED <<aux_vars, crash_vars, transfer_vars, now, status_response, current_recording_session, recording_lock, session,
                   should_stop, hpc, stop_pc, stop_response, disk,
                   polls_after_stop>>

\* the files written when the first k of the three writes succeed
Written(ts, k) == {File(ts, i) : i \in 1..k}

\* the stereo, ch1 and ch2 files are written in turn; the first write
\* that raises ends the function with False
rwp_save(r) ==
    /\ wpc[r] = "rec_save"
    /\ \E k \in 0..3 :
         /\ disk' = disk \cup Written(wloc[r].timestamp, k)
         /\ wloc' = [wloc EXCEPT ![r] =
                        [NoLocals EXCEPT !.success = (k = 3),
                                         !.loop_end = wloc[r].loop_end]]
    /\ wpc' = [wpc EXCEPT ![r] = "fin"]
    /\ UNCHANGED <<aux_vars, crash_vars, transfer_vars, now, status_response, current_recording_session, recording_lock, session,
                   should_stop, hpc, stop_pc, stop_response,
                   polls_after_stop>>

\* ------------------------------- start_recording_in_thread, finalization
\* the worker enters `with recording_lock:` after the capture returned
thread_finalize_acquire(r) ==
    /\ wpc[r] = "fin"
    /\ recording_lock = Free
    /\ recording_lock' = WorkerThread(r)
    /\ wpc' = [wpc EXCEPT ![r] = "fin_locked"]
    /\ UNCHANGED <<aux_vars, crash_vars, transfer_vars, now, status_response, current_recording_session, session, should_stop,
                   hpc, wloc, stop_pc, stop_response, disk,
                   polls_after_stop>>

\* the three expected paths under the session's base path
ExpectedFiles(s) == [i \in 1..3 |-> Path(s.start_time, i)]

\* `if success or session.status == "stopped":` status, end_time and the
\* list of expected paths are written; verification follows in the lock
finalize_success(r) ==
    /\ session' = [session EXCEPT
                     ![r].status = IF @ /= "stopped" THEN "completed" ELSE @,
                     ![r].end_time = now,
                     ![r].files = ExpectedFiles(session[r])]
    /\ wloc' = [wloc EXCEPT ![r] =
                   [NoLocals EXCEPT !.vidx = 1,
                                    !.success = wloc[r].success]]
    /\ wpc' = [wpc EXCEPT ![r] = "verify"]
    /\ UNCHANGED recording_lock

\* `else:` the capture returned False and no stop was acknowledged
finalize_failure(r) ==
    /\ session' = [session EXCEPT ![r].status = "error",
                                  ![r].error = "Recording failed"]
    /\ recording_lock' = Free
    /\ wpc' = [wpc EXCEPT ![r] = "clear"]
    /\ wloc' = [wloc EXCEPT ![r] = NoLocals]

thread_finalize(r) ==
    /\ wpc[r] = "fin_locked"
    /\ recording_lock = WorkerThread(r)
    /\ IF wloc[r].success \/ session[r].status = "stopped"
       THEN finalize_success(r)
       ELSE finalize_failure(r)
    /\ UNCHANGED <<aux_vars, crash_vars, transfer_vars, now, status_response, current_recording_session, should_stop, hpc,
                   stop_pc, stop_response, disk, polls_after_stop>>

\* `if os.path.exists(file_path):` for the next expected path
thread_verify_exists(r) ==
    /\ wpc[r] = "verify"
    /\ wloc[r].vidx <= 3
    /\ IF session[r].files[wloc[r].vidx].file \in disk
       THEN /\ wpc' = [wpc EXCEPT ![r] = "stat"]
            /\ UNCHANGED wloc
       ELSE /\ wloc' = [wloc EXCEPT ![r].vidx = @ + 1]
            /\ UNCHANGED wpc
    /\ UNCHANGED <<aux_vars, crash_vars, transfer_vars, now, status_response, current_recording_session, recording_lock, session,
                   should_stop, hpc, stop_pc, stop_response, disk,
                   polls_after_stop>>

\* `stat = os.stat(file_path)` and the append of the metadata record;
\* os.stat raises when the file was removed since the existence test
thread_verify_stat_keeping_lock(r) ==
    /\ wpc[r] = "stat"
    /\ IF session[r].files[wloc[r].vidx].file \in disk
       THEN /\ wloc' = [wloc EXCEPT
                          ![r].verified =
                              Append(@, Meta(session[r].start_time,
                                             wloc[r].vidx)),
                          ![r].vidx = @ + 1]
            /\ wpc' = [wpc EXCEPT ![r] = "verify"]
       ELSE /\ wpc' = [wpc EXCEPT ![r] = "exc"]
            /\ wloc' = [wloc EXCEPT ![r] = NoLocals]
    /\ UNCHANGED <<aux_vars, crash_vars, transfer_vars, now, status_response, current_recording_session,
                   recording_lock, session, should_stop, hpc, stop_pc,
                   stop_response, disk, polls_after_stop>>

thread_verify_stat(r) ==
    /\ wpc[r] = "stat"
    /\ IF session[r].files[wloc[r].vidx].file \in disk
       THEN /\ wloc' = [wloc EXCEPT
                          ![r].verified =
                              Append(@, Meta(session[r].start_time,
                                             wloc[r].vidx)),
                          ![r].vidx = @ + 1]
            /\ wpc' = [wpc EXCEPT ![r] = "verify"]
            /\ UNCHANGED recording_lock
       ELSE /\ recording_lock' = Free
            /\ wpc' = [wpc EXCEPT ![r] = "exc"]
            /\ wloc' = [wloc EXCEPT ![r] = NoLocals]
    /\ UNCHANGED <<aux_vars, crash_vars, transfer_vars, now, status_response, current_recording_session, session, should_stop,
                   hpc, stop_pc, stop_response, disk, polls_after_stop>>

\* the verified list replaces the expected paths; the lock is released
thread_verify_done(r) ==
    /\ wpc[r] = "verify"
    /\ wloc[r].vidx > 3
    /\ session' = [session EXCEPT
                     ![r].files = wloc[r].verified,
                     ![r].actual_duration =
                         session[r].end_time - session[r].start_time]
    /\ recording_lock' = Free
    /\ wpc' = [wpc EXCEPT ![r] = "clear"]
    /\ wloc' = [wloc EXCEPT ![r] = NoLocals]
    /\ UNCHANGED <<aux_vars, crash_vars, transfer_vars, now, status_response, current_recording_session, should_stop, hpc,
                   stop_pc, stop_response, disk, polls_after_stop>>

\* `except Exception as e:` enters `with recording_lock:`
thread_except_acquire(r) ==
    /\ wpc[r] = "exc"
    /\ recording_lock = Free
    /\ recording_lock' = WorkerThread(r)
    /\ wpc' = [wpc EXCEPT ![r] = "exc_locked"]
    /\ UNCHANGED <<aux_vars, crash_vars, transfer_vars, now, status_response, current_recording_session, session, should_stop,
                   hpc, wloc, stop_pc, stop_response, disk,
                   polls_after_stop>>

\* the exception handler marks the session as failed
thread_except_rethrow(r) ==
    /\ wpc[r] = "exc_locked"
    /\ recording_lock = WorkerThread(r)
    /\ recording_lock' = Free
    /\ wpc' = [wpc EXCEPT ![r] = "done"]
    /\ UNCHANGED <<aux_vars, crash_vars, transfer_vars, now, status_response, current_recording_session, session,
                   should_stop, hpc, wloc, stop_pc, stop_response, disk,
                   polls_after_stop>>

thread_except(r) ==
    /\ wpc[r] = "exc_locked"
    /\ recording_lock = WorkerThread(r)
    /\ session' = [session EXCEPT ![r].status = "error",
                                  ![r].error = "exception",
                                  ![r].end_time = now]
    /\ recording_lock' = Free
    /\ wpc' = [wpc EXCEPT ![r] = "clear"]
    /\ UNCHANGED <<aux_vars, crash_vars, transfer_vars, now, status_response, current_recording_session, should_stop, hpc, wloc,
                   stop_pc, stop_response, disk, polls_after_stop>>

\* `finally:` enters `with recording_lock:`
thread_clear_acquire(r) ==
    /\ wpc[r] = "clear"
    /\ recording_lock = Free
    /\ recording_lock' = WorkerThread(r)
    /\ wpc' = [wpc EXCEPT ![r] = "clear_locked"]
    /\ UNCHANGED <<aux_vars, crash_vars, transfer_vars, now, status_response, current_recording_session, session, should_stop,
                   hpc, wloc, stop_pc, stop_response, disk,
                   polls_after_stop>>

\* the slot is emptied and the thread ends. Nothing refers to the thread's
\* session and recorder any more (the slot never holds a session whose
\* worker has ended): the objects are garbage and leave the model
thread_clear_keeping_slot(r) ==
    /\ wpc[r] = "clear_locked"
    /\ recording_lock = WorkerThread(r)
    /\ recording_lock' = Free
    /\ wpc' = [wpc EXCEPT ![r] = "done"]
    /\ wloc' = [wloc EXCEPT ![r] = NoLocals]
    /\ session' = [session EXCEPT ![r] = NoSession]
    /\ should_stop' = [should_stop EXCEPT ![r] = FALSE]
    /\ polls_after_stop' = [polls_after_stop EXCEPT ![r] = 0]
    /\ UNCHANGED <<aux_vars, crash_vars, transfer_vars, now, status_response, current_recording_session, hpc,
                   stop_pc, stop_response, disk>>

thread_clear(r) ==
    /\ wpc[r] = "clear_locked"
    /\ recording_lock = WorkerThread(r)
    /\ current_recording_session' = None
    /\ recording_lock' = Free
    /\ wpc' = [wpc EXCEPT ![r] = "done"]
    /\ wloc' = [wloc EXCEPT ![r] = NoLocals]
    /\ session' = [session EXCEPT ![r] = NoSession]
    /\ should_stop' = [should_stop EXCEPT ![r] = FALSE]
    /\ polls_after_stop' = [polls_after_stop EXCEPT ![r] = 0]
    /\ UNCHANGED <<aux_vars, crash_vars, transfer_vars, now, status_response, hpc, stop_pc, stop_response, disk>>

\* ------------------------------------------------------- stop_recording
\* POST /recordings/stop enters `with recording_lock:`
stop_recording_acquire ==
    /\ stop_pc = "idle"
    /\ recording_lock = Free
    /\ recording_lock' = StopThread
    /\ stop_pc' = "locked"
    /\ stop_response' = "none"
    /\ UNCHANGED <<aux_vars, crash_vars, transfer_vars, now, status_response, current_recording_session, session, should_stop,
                   hpc, wpc, wloc, disk, polls_after_stop>>

\* a refusal test that forgets the status of the session in the slot
NoActiveRecording_slot_only ==
    current_recording_session = None

\* the condition under which a stop request is refused
NoActiveRecording ==
    \/ current_recording_session = None
    \/ session[current_recording_session].status /= "recording"

\* 400 "No active recording session"
stop_reject ==
    /\ stop_response' = "no_active"
    /\ UNCHANGED <<current_recording_session, session, should_stop>>

\* AudioRecorder.stop_recording, called if the session has a recorder
AudioRecorder_stop_recording(s) ==
    IF session[s].recorder
    THEN [should_stop EXCEPT ![s] = TRUE]
    ELSE should_stop

\* the recorder is signalled, the session marked stopped: 200
stop_ack ==
    /\ should_stop' = AudioRecorder_stop_recording(current_recording_session)
    /\ session' = [session EXCEPT
                     ![current_recording_session].status = "stopped",
                     ![current_recording_session].end_time = now]
    /\ stop_response' = "ack"
    /\ UNCHANGED current_recording_session

stop_recording_body ==
    /\ stop_pc = "locked"
    /\ recording_lock = StopThread
    /\ IF NoActiveRecording THEN stop_reject ELSE stop_ack
    /\ recording_lock' = Free
    /\ stop_pc' = "idle"
    /\ UNCHANGED <<aux_vars, crash_vars, transfer_vars, now, status_response, hpc, wpc, wloc, disk, polls_after_stop>>

\* ----------------------------------------------------- delete_recording
\* POST /recordings/delete removes the output files of one timestamp
delete_recording(ts) ==
    /\ \E f \in disk : f.ts = ts
    /\ disk' = {f \in disk : f.ts /= ts}
    /\ UNCHANGED <<aux_vars, crash_vars, transfer_vars, now, status_response, current_recording_session, recording_lock, session,
                   should_stop, hpc, wpc, wloc, stop_pc, stop_response,
                   polls_after_stop>>

\* ----------------------------------------------- RecordingSession.to_dict
\* get_elapsed_seconds: seconds since start_time while recording, else 0
get_elapsed_seconds_reversed(s) ==
    IF s.start_time /= None /\ s.status = "recording"
    THEN s.start_time - now
    ELSE 0

get_elapsed_seconds(s) ==
    IF s.start_time /= None /\ s.status = "recording"
    THEN now - s.start_time
    ELSE 0

\* to_dict of the session of request r: the fields a client sees, with
\* the elapsed/progress fields only while the session is recording
to_dict(r) ==
    [kind |-> "session", sid |-> r,
     status |-> session[r].status,
     end_time |-> session[r].end_time,
     files |-> session[r].files,
     has_elapsed |-> (session[r].status = "recording"
                        /\ session[r].start_time /= None),
     elapsed |-> IF session[r].status = "recording"
                      /\ session[r].start_time /= None
                 THEN get_elapsed_seconds(session[r])
                 ELSE 0]

\* the idle marker {"status": "idle", "message": ...}
IdleMarker ==
    [kind |-> "idle", sid |-> None, status |-> "idle", end_time |-> None,
     files |-> <<>>, has_elapsed |-> FALSE, elapsed |-> 0]

\* what GET /recordings/status answers in the current state
StatusSnapshot ==
    IF current_recording_session /= None
    THEN to_dict(current_recording_session)
    ELSE IdleMarker

\* --------------------------------------------------- get_recording_status
\* the whole handler is one lock block that only reads: it runs when the
\* lock is free and leaves every shared object as it was
get_recording_status ==
    /\ recording_lock = Free
    /\ status_response' = StatusSnapshot
    /\ UNCHANGED <<aux_vars, crash_vars, transfer_vars, now, current_recording_session,
                   recording_lock, session, should_stop, hpc, wpc, wloc,
                   stop_pc, stop_response, disk, polls_after_stop>>

\* ------------------------------------------------------------ wall clock
\* datetime.now() and time.time() advance by one second
Tick ==
    /\ now < MaxTime
    /\ now' = now + 1
    /\ UNCHANGED <<aux_vars, crash_vars, transfer_vars, status_response, current_recording_session,
                   recording_lock, session, should_stop, hpc, wpc, wloc,
                   stop_pc, stop_response, disk, polls_after_stop>>

\* ---------------------------------------------------------- crash tracker
\* the document read at startup: the parsed file, or the default when the
\* file does not exist or cannot be parsed
LoadedCrashData ==
    IF crash_file.kind = "doc" THEN crash_file.data ELSE DefaultCrashData

\* _save_crash_tracker: the file after the attempt to write document d;
\* open() raises and the file is as before, or json.dump raises after
\* open() truncated it; the exception is printed and not raised
SaveOutcomes(d) ==
    {[kind |-> "doc", data |-> d],
     crash_file,
     [kind |-> "unreadable", data |-> DefaultCrashData]}

CrashRecord_after_overwrite ==
    [detected_at |-> now, last_start |-> now,
     type |-> "unexpected_shutdown"]

\* the record appended when the loaded document says running
CrashRecord ==
    [detected_at |-> now, last_start |-> LoadedCrashData.last_start,
     type |-> "unexpected_shutdown"]

\* LoggingSystem.__init__ up to _load_crash_tracker: a new process starts
load_crash_tracker ==
    /\ proc /= "up" /\ proc /= "marked"
    /\ LoadedCrashData.running
           => /\ Len(LoadedCrashData.crashes) < MaxCrashes
              /\ Len(crash_history) < MaxCrashes
    /\ crash_data' =
           [LoadedCrashData EXCEPT
              !.crashes = IF LoadedCrashData.running
                          THEN Append(@, CrashRecord) ELSE @,
              !.running = TRUE,
              !.last_start = now]
    /\ crash_history' = IF LoadedCrashData.running
                        THEN Append(crash_history, CrashRecord)
                        ELSE crash_history
    /\ crash_file' \in SaveOutcomes(crash_data')
    /\ proc' = "up"
    /\ UNCHANGED <<aux_vars, now, core_vars, transfer_vars>>

mark_clean_shutdown_resetting(d) ==
    [d EXCEPT !.running = FALSE,
              !.clean_shutdowns = @ + 1,
              !.last_shutdown = now,
              !.crashes = <<>>]

\* the document after the three assignments of mark_clean_shutdown
mark_clean_shutdown_data(d) ==
    [d EXCEPT !.running = FALSE,
              !.clean_shutdowns = @ + 1,
              !.last_shutdown = now]

\* mark_clean_shutdown, called when the server shuts down
mark_clean_shutdown ==
    /\ proc = "up"
    /\ crash_data.clean_shutdowns < MaxShutdowns
    /\ crash_data' = mark_clean_shutdown_data(crash_data)
    /\ crash_file' \in SaveOutcomes(crash_data')
    /\ proc' = "marked"
    /\ UNCHANGED <<aux_vars, now, core_vars, transfer_vars, crash_history>>

\* the process ends after it marked its shutdown
process_exit ==
    /\ proc = "marked"
    /\ proc' = "ended"
    /\ crash_data' = DefaultCrashData
    /\ UNCHANGED <<aux_vars, now, core_vars, transfer_vars, crash_file, crash_history>>

\* the running process disappears: kill -9, power loss
abrupt_termination ==
    /\ proc = "up"
    /\ proc' = "killed"
    /\ crash_data' = DefaultCrashData
    /\ UNCHANGED <<aux_vars, now, core_vars, transfer_vars, crash_file, crash_history>>

\* the process disappears inside _save_crash_tracker, between the open()
\* that truncates the file and the end of the write
abrupt_termination_in_save ==
    /\ proc /= "marked"
    /\ crash_file' = [kind |-> "unreadable", data |-> DefaultCrashData]
    /\ proc' = "killed"
    /\ crash_data' = DefaultCrashData
    /\ UNCHANGED <<aux_vars, now, core_vars, transfer_vars, crash_history>>

\* -------------------------------------------------------- remote transfer
\* the protocol tags; "ftp" stands for every unsupported tag
Protocols == {"scp", "sftp", "rsync", "http", "ftp"}

\* the values after one key of config["storage_server"] was assigned
Updates ==
    {[storage_config EXCEPT !.enabled = b] : b \in BOOLEAN}
        \cup {[storage_config EXCEPT !.host = b] : b \in BOOLEAN}
        \cup {[storage_config EXCEPT !.username = b] : b \in BOOLEAN}
        \cup {[storage_config EXCEPT !.remote_path = b] : b \in BOOLEAN}
        \cup {[storage_config EXCEPT !.protocol = q] : q \in Protocols}

\* PUT /storage/config: dict.update assigns the keys of the request body
\* one by one, here one key per step
update_storage_config(c) ==
    /\ storage_config' = c
    /\ UNCHANGED <<aux_vars, now, core_vars, crash_vars, transfer>>

ConfigComplete_without_path(c) ==
    c.enabled /\ c.host /\ c.username

\* the storage server is enabled and no required field is missing
ConfigComplete(c) ==
    c.enabled /\ c.host /\ c.username /\ c.remote_path

\* the paths found by the three globs, in the order of the patterns
FilesToTransfer(sid) ==
    SelectSeq([i \in 1..3 |-> File(sid, i)], LAMBDA f : f \in disk)

\* the elements of a sequence
Range(s) == {s[i] : i \in DOMAIN s}

\* the response codes an upload can get
HttpStatuses == {200, 201, 404}

\* what the attempt on one file can give: the exit code of scp or rsync,
\* the status of the upload, an exception (timeout included), or nothing
\* when no command is issued for the protocol
Outcomes(protocol) ==
    IF protocol \in {"scp", "rsync"}
    THEN {[kind |-> "exit", code |-> c] : c \in {0, 1}}
             \cup {[kind |-> "exception", code |-> 0]}
    ELSE IF protocol = "http"
    THEN {[kind |-> "http", code |-> c] : c \in HttpStatuses}
             \cup {[kind |-> "exception", code |-> 0]}
    ELSE {[kind |-> "unsupported", code |-> 0]}

\* the tests `result.returncode == 0` and `response.status_code == 200`
Succeeded(o) ==
    \/ o.kind = "exit" /\ o.code = 0
    \/ o.kind = "http" /\ o.code = 200

\* transfer_recording up to the loop: the request body, the storage
\* configuration and the files of the session are checked
transfer_recording_begin(sid, del) ==
    /\ transfer.pc \in {"idle", "done"}
    /\ transfer' =
          IF sid = None
          THEN [NoTransfer EXCEPT !.pc = "done",
                                  !.response = "session_id is required"]
          ELSE IF ~ConfigComplete(storage_config)
          THEN [NoTransfer EXCEPT !.pc = "done",
                                  !.session_id = sid,
                                  !.response = "configuration error"]
          ELSE IF FilesToTransfer(sid) = <<>>
          THEN [NoTransfer EXCEPT !.pc = "done",
                                  !.session_id = sid,
                                  !.response = "no files found"]
          ELSE [NoTransfer EXCEPT !.pc = "loop",
                                  !.session_id = sid,
                                  !.protocol = storage_config.protocol,
                                  !.delete_after_transfer = del,
                                  !.files_to_transfer = FilesToTransfer(sid),
                                  !.idx = 1]
    /\ UNCHANGED <<aux_vars, now, core_vars, crash_vars, storage_config>>

AfterLoop_abort_on_failure(tr) ==
    IF tr.idx <= Len(tr.files_to_transfer) /\ tr.failed_files = <<>>
    THEN tr
    ELSE [tr EXCEPT !.pc = "done", !.response = "ok"]

\* where the call goes after the transfer loop
AfterLoop(tr) ==
    IF tr.idx <= Len(tr.files_to_transfer)
    THEN tr
    ELSE IF tr.delete_after_transfer /\ tr.transferred_files /= <<>>
    THEN [tr EXCEPT !.pc = "delete", !.idx = 1]
    ELSE [tr EXCEPT !.pc = "done", !.response = "ok"]

RecordOutcome_in_both(tr, filename, o) ==
    [tr EXCEPT !.transferred_files =
                   IF Succeeded(o) THEN Append(@, filename) ELSE @,
               !.failed_files =
                   IF o.kind = "exit" /\ o.code = 0
                   THEN @ ELSE Append(@, [file |-> filename, error |-> o]),
               !.last_outcome = o,
               !.idx = @ + 1]

\* the body of the loop for one file: its name goes to transferred_files
\* when the attempt succeeded and to failed_files, with the reason, in
\* every other branch and in the except block
RecordOutcome(tr, filename, o) ==
    IF Succeeded(o)
    THEN [tr EXCEPT !.transferred_files = Append(@, filename),
                    !.last_outcome = o,
                    !.idx = @ + 1]
    ELSE [tr EXCEPT !.failed_files =
                        Append(@, [file |-> filename, error |-> o]),
                    !.last_outcome = o,
                    !.idx = @ + 1]

transfer_file_under_lock ==
    /\ transfer.pc = "loop"
    /\ recording_lock = Free
    /\ \E o \in Outcomes(transfer.protocol) :
         transfer' =
           AfterLoop(RecordOutcome(
                       transfer,
                       transfer.files_to_transfer[transfer.idx], o))
    /\ UNCHANGED <<aux_vars, now, core_vars, crash_vars, storage_config>>

\* one iteration of `for file_path in files_to_transfer`
transfer_file ==
    /\ transfer.pc = "loop"
    /\ \E o \in Outcomes(transfer.protocol) :
         transfer' =
           AfterLoop(RecordOutcome(
                       transfer,
                       transfer.files_to_transfer[transfer.idx], o))
    /\ UNCHANGED <<aux_vars, now, core_vars, crash_vars, storage_config>>

\* where the call goes after the deletion loop
AfterDelete(tr) ==
    IF tr.idx <= Len(tr.files_to_transfer)
    THEN tr
    ELSE [tr EXCEPT !.pc = "done", !.response = "ok"]

ShouldDelete_any(tr, file_path) == file_path \in Range(tr.files_to_transfer)

\* `if filename in transferred_files:`
ShouldDelete(tr, file_path) == file_path \in Range(tr.transferred_files)

\* one iteration of the deletion loop: a transferred file is removed, or
\* os.remove raises and the error is logged; other files are skipped
transfer_delete_file ==
    /\ transfer.pc = "delete"
    /\ LET file_path == transfer.files_to_transfer[transfer.idx]
       IN  IF ShouldDelete(transfer, file_path)
           THEN \/ /\ file_path \in disk
                   /\ disk' = disk \ {file_path}
                   /\ transfer' =
                         AfterDelete([transfer EXCEPT
                                        !.deleted_files = Append(@, file_path),
                                        !.idx = @ + 1])
                \/ /\ UNCHANGED disk
                   /\ transfer' =
                         AfterDelete([transfer EXCEPT !.idx = @ + 1])
           ELSE /\ UNCHANGED disk
                /\ transfer' = AfterDelete([transfer EXCEPT !.idx = @ + 1])
    /\ UNCHANGED <<aux_vars, now, session_vars, crash_vars, storage_config>>

\* ------------------------------------------------------- Python slices
\* Python's s[start:end] for a list s: a negative index counts from the
\* end, and both indexes are clamped to 0..len(s)
PyIndex(i, n) ==
    IF i < 0 THEN (IF i + n < 0 THEN 0 ELSE i + n)
    ELSE IF i > n THEN n ELSE i

PySlice(s, start, end) ==
    LET a == PyIndex(start, Len(s))
        b == PyIndex(end, Len(s))
    IN  IF a < b THEN SubSeq(s, a + 1, b) ELSE <<>>

\* ------------------------------------------------------ playback buffer
\* int(np.ceil(a / b)) for integers a >= 0 and b >= 1
Ceil(a, b) == (a + b - 1) \div b

\* np.tile(data, (loops, 1)): the samples of data, loops times over
Tile(data, loops) ==
    [i \in 1..(Len(data) * loops) |-> data[((i - 1) % Len(data)) + 1]]

\* the buffer play_audio hands to sd.play for a file of samples
\* playback_data read at playback_sr samples a second
PlaybackBuffer(playback_data, duration, playback_sr) ==
    LET loops_needed == Ceil(duration * playback_sr, Len(playback_data))
        playback_length == duration * playback_sr
    IN  IF loops_needed > 1
        THEN PySlice(Tile(playback_data, loops_needed), 0, playback_length)
        ELSE playback_data

\* play_audio for a playback file of L samples; sample i is written i
play_audio(L, duration, playback_sr) ==
    /\ playback' =
          [op |-> "played", L |-> L, duration |-> duration,
           playback_sr |-> playback_sr,
           buffer |-> PlaybackBuffer([i \in 1..L |-> i], duration,
                                     playback_sr)]
    /\ UNCHANGED <<now, core_vars, crash_vars, transfer_vars, log_vars,
                   config_vars>>

\* captures of any requested duration with any playback file
NextPlayback ==
    \E L \in 1..MaxSamples, duration \in 1..MaxDuration,
       playback_sr \in 1..MaxRate :
          play_audio(L, duration, playback_sr)

SpecPlayback == Init /\ [][NextPlayback]_vars

\* ------------------------------------------------- configuration views
\* the passwords a client can store
Secrets == [kind : {"clear"}, value : 1..MaxSecrets]

\* `if "password" in c: c["password"] = "***"`
Masked(pw) ==
    IF pw.kind = "absent" THEN pw ELSE [kind |-> "masked", value |-> 0]

\* the body of GET /config: jsonify(config), the storage_server section
\* as it is stored
get_config_body(c, pw) ==
    [op |-> "get_config", code |-> 200, storage_server |-> c,
     password |-> pw]

\* the body of GET /storage/config: a copy with the password replaced
get_storage_config_body(c, pw) ==
    [op |-> "get_storage_config", code |-> 200, storage_server |-> c,
     password |-> Masked(pw)]

\* the body of PUT /storage/config when the stored configuration is c
\* with password pw after the update: the masked copy if the file was
\* saved, the 500 error otherwise
put_storage_config_body(c, pw, saved) ==
    IF saved
    THEN [op |-> "put_storage_config", code |-> 200, storage_server |-> c,
          password |-> Masked(pw)]
    ELSE [NoConfigResponse EXCEPT !.op = "put_storage_config",
                                  !.code = 500]

\* GET /config
get_config ==
    /\ config_response' = get_config_body(storage_config, password)
    /\ UNCHANGED <<now, core_vars, crash_vars, transfer_vars, log_vars,
                   password, playback>>

\* GET /storage/config
get_storage_config ==
    /\ config_response' = get_storage_config_body(storage_config, password)
    /\ UNCHANGED <<now, core_vars, crash_vars, transfer_vars, log_vars,
                   password, playback>>

\* PUT /storage/config with its answer: the request body assigns one
\* key, the password or another one; the configuration in memory is
\* updated whether or not the file could be saved
put_storage_config(c, pw, saved) ==
    /\ storage_config' = c
    /\ password' = pw
    /\ config_response' = put_storage_config_body(c, pw, saved)
    /\ UNCHANGED <<now, core_vars, crash_vars, log_vars, transfer,
                   playback>>

\* requests that read or update the storage configuration
NextConfig ==
    \/ get_config
    \/ get_storage_config
    \/ \E c \in Updates, saved \in BOOLEAN :
          put_storage_config(c, password, saved)
    \/ \E pw \in Secrets, saved \in BOOLEAN :
          put_storage_config(storage_config, pw, saved)

SpecConfig == Init /\ [][NextConfig]_vars

\* ------------------------------------------------------------ log files
\* what a name of the log directory can be: a file that matches '*.log*',
\* one that matches and whose name starts with '.', one that does not
\* match, each with its modification time in days
LogEntries ==
    {Absent} \cup [kind : {"log", "hidden", "other"}, mtime : 0..MaxTime]

IsOld_or_at_cutoff(f, days) == f.mtime <= now - days

\* `mod_time < cutoff_time` with cutoff_time = now - days
IsOld(f, days) == f.mtime < now - days

\* the loop of purge_old_logs from name n on: hidden files are skipped,
\* an old file is unlinked and appended to deleted_files
RECURSIVE PurgeFrom(_, _, _, _)
PurgeFrom(n, days, dir, deleted_files) ==
    IF n > MaxFiles
    THEN [dir |-> dir, deleted_files |-> deleted_files]
    ELSE IF dir[n].kind = "log" /\ IsOld(dir[n], days)
    THEN PurgeFrom(n + 1, days, [dir EXCEPT ![n] = Absent],
                   Append(deleted_files, n))
    ELSE PurgeFrom(n + 1, days, dir, deleted_files)

\* LoggingSystem.purge_old_logs(days)
purge_old_logs(days) ==
    LET end == PurgeFrom(1, days, log_dir, <<>>)
    IN  /\ log_dir' = end.dir
        /\ log_result' =
              [NoLogResult EXCEPT !.op = "purge",
                                  !.days = days,
                                  !.deleted_files = end.deleted_files,
                                  !.deleted_count = Len(end.deleted_files)]
        /\ UNCHANGED <<now, core_vars, crash_vars, transfer_vars,
                       config_vars, playback>>

Max(a, b) == IF a >= b THEN a ELSE b

\* the list read_log returns for a file of L lines; line i of the file
\* is written i
ReadLines(L, lines, offset) ==
    LET all_lines == [i \in 1..L |-> i]
        start == Max(0, Len(all_lines) - lines - offset)
        end == IF offset > 0
               THEN Len(all_lines) - offset
               ELSE Len(all_lines)
    IN  PySlice(all_lines, start, end)

\* LoggingSystem.read_log(filename, lines, offset) on an existing file
\* that has L lines when it is read
read_log(name, L, lines, offset) ==
    /\ log_dir[name] /= Absent
    /\ log_result' =
          [NoLogResult EXCEPT !.op = "read",
                              !.L = L,
                              !.lines = lines,
                              !.offset = offset,
                              !.returned = ReadLines(L, lines, offset)]
    /\ UNCHANGED <<now, core_vars, crash_vars, transfer_vars, log_dir,
                   config_vars, playback>>

\* a log directory with any files, at any time
InitLogs ==
    /\ playback = NoPlayback
    /\ log_dir \in [1..MaxFiles -> LogEntries]
    /\ log_result = NoLogResult
    /\ password = NoPassword
    /\ config_response = NoConfigResponse
    /\ now \in 0..MaxTime
    /\ current_recording_session = None
    /\ recording_lock = Free
    /\ session = [r \in Req |-> NoSession]
    /\ should_stop = [r \in Req |-> FALSE]
    /\ hpc = [r \in Req |-> "idle"]
    /\ wpc = [r \in Req |-> "none"]
    /\ wloc = [r \in Req |-> NoLocals]
    /\ stop_pc = "idle"
    /\ stop_response = "none"
    /\ status_response = NoResponse
    /\ disk = {}
    /\ polls_after_stop = [r \in Req |-> 0]
    /\ crash_file = [kind |-> "absent", data |-> DefaultCrashData]
    /\ crash_data = DefaultCrashData
    /\ proc = "none"
    /\ crash_history = <<>>
    /\ storage_config = DefaultStorageConfig
    /\ transfer = NoTransfer

\* purges of the log directory
NextLogs == \E days \in 0..MaxTime : purge_old_logs(days)

SpecLogs == InitLogs /\ [][NextLogs]_vars

\* a log directory that holds one log file
InitRead ==
    /\ InitLogs
    /\ now = 0
    /\ log_dir = [n \in 1..MaxFiles |->
                     IF n = 1 THEN [kind |-> "log", mtime |-> 0]
                              ELSE Absent]

\* reads of a log file with any content
NextRead ==
    \E name \in 1..MaxFiles, L \in 0..MaxLines, lines \in 0..MaxLines,
       offset \in 0..(MaxLines + 1) :
          read_log(name, L, lines, offset)

SpecRead == InitRead /\ [][NextRead]_vars

\* ------------------------------------------------------------------ next
\* the steps of the handler of start request r
start_recording(r) ==
    \/ start_recording_acquire(r)
    \/ start_recording_check(r)
    \/ start_recording_create(r)
    \/ start_recording_respond(r)

\* the steps of the worker thread of request r
start_recording_in_thread(r) ==
    \/ thread_begin_acquire(r)
    \/ thread_set_recording(r)
    \/ thread_create_recorder(r)
    \/ rwp_load(r)
    \/ rwp_devices(r)
    \/ rwp_start(r)
    \/ rwp_poll_test(r)
    \/ rwp_poll_sleep(r)
    \/ rwp_after_loop(r)
    \/ rwp_save(r)
    \/ thread_finalize_acquire(r)
    \/ thread_finalize(r)
    \/ thread_verify_exists(r)
    \/ thread_verify_stat(r)
    \/ thread_verify_done(r)
    \/ thread_except_acquire(r)
    \/ thread_except(r)
    \/ thread_clear_acquire(r)
    \/ thread_clear(r)

\* the steps of the handler of a stop request
stop_recording ==
    \/ stop_recording_acquire
    \/ stop_recording_body

\* the server with the start requests of R
NextOf(R) ==
    \/ \E r \in R : start_recording(r)
    \/ \E r \in R : start_recording_in_thread(r)
    \/ stop_recording
    \/ \E f \in disk : delete_recording(f.ts)

Next == NextOf(Req)

\* concurrent start requests, stop requests and deletions; the clock is
\* not advanced
Spec == Init /\ [][Next]_vars

\* one start request, with the clock advancing and status requests
Single == {r \in Req : \A q \in Req : r <= q}

NextStatus ==
    \/ NextOf(Single)
    \/ get_recording_status
    \/ Tick

SpecStatus == Init /\ [][NextStatus]_vars

\* the crash tracker over startups, clean shutdowns and abrupt
\* terminations of the server process, with the clock advancing
NextCrash ==
    \/ load_crash_tracker
    \/ mark_clean_shutdown
    \/ process_exit
    \/ abrupt_termination
    \/ abrupt_termination_in_save
    \/ Tick

SpecCrash == Init /\ [][NextCrash]_vars

\* the steps of the handler of a transfer request
transfer_recording ==
    \/ \E sid \in {None, 0}, del \in BOOLEAN :
           transfer_recording_begin(sid, del)
    \/ transfer_file
    \/ transfer_delete_file

\* the server starts with recordings of earlier runs on disk
InitTransfer ==
    \E d \in SUBSET {File(0, i) : i \in 1..3} :
        /\ disk = d
        /\ InitAux
        /\ now = 0
        /\ current_recording_session = None
        /\ recording_lock = Free
        /\ session = [r \in Req |-> NoSession]
        /\ should_stop = [r \in Req |-> FALSE]
        /\ hpc = [r \in Req |-> "idle"]
        /\ wpc = [r \in Req |-> "none"]
        /\ wloc = [r \in Req |-> NoLocals]
        /\ stop_pc = "idle"
        /\ stop_response = "none"
        /\ status_response = NoResponse
        /\ polls_after_stop = [r \in Req |-> 0]
        /\ crash_file = [kind |-> "absent", data |-> DefaultCrashData]
        /\ crash_data = DefaultCrashData
        /\ proc = "none"
        /\ crash_history = <<>>
        /\ storage_config = DefaultStorageConfig
        /\ transfer = NoTransfer

\* transfer requests, changes of the storage configuration and deletions
NextTransfer ==
    \/ transfer_recording
    \/ \E c \in Updates \ {storage_config} : update_storage_config(c)
    \/ \E f \in disk : delete_recording(f.ts)

SpecTransfer == InitTransfer /\ [][NextTransfer]_vars

\* a server whose storage configuration is complete, with the files of an
\* earlier session in the recordings directory or none
InitConcurrent ==
    /\ InitAux
    /\ disk \in {{}, {File(0, i) : i \in 1..3}}
    /\ storage_config = [DefaultStorageConfig EXCEPT !.enabled = TRUE,
                                                     !.host = TRUE,
                                                     !.username = TRUE,
                                                     !.remote_path = TRUE]
    /\ transfer = NoTransfer
    /\ now = 0
    /\ current_recording_session = None
    /\ recording_lock = Free
    /\ session = [r \in Req |-> NoSession]
    /\ should_stop = [r \in Req |-> FALSE]
    /\ hpc = [r \in Req |-> "idle"]
    /\ wpc = [r \in Req |-> "none"]
    /\ wloc = [r \in Req |-> NoLocals]
    /\ stop_pc = "idle"
    /\ stop_response = "none"
    /\ status_response = NoResponse
    /\ polls_after_stop = [r \in Req |-> 0]
    /\ crash_file = [kind |-> "absent", data |-> DefaultCrashData]
    /\ crash_data = DefaultCrashData
    /\ proc = "none"
    /\ crash_history = <<>>

\* transfer requests served while one recording is started, runs, is
\* stopped and finalized (Flask serves each request in its own thread)
NextConcurrent ==
    \/ NextOf(Single)
    \/ transfer_recording

SpecConcurrent == InitConcurrent /\ [][NextConcurrent]_vars

\* the poll loop is left: the device finished, or its query raised
rwp_poll_exit(r) ==
    /\ rwp_poll_sleep(r)
    /\ wpc'[r] /= "rec_poll"

\* a thread that can run does run, a thread that waits for the lock gets
\* it when it is free again and again, and the capture device does not
\* stay active for ever
Fairness ==
    /\ \A r \in Single : WF_vars(start_recording_check(r))
    /\ \A r \in Single : WF_vars(start_recording_create(r))
    /\ \A r \in Single : WF_vars(start_recording_respond(r))
    /\ WF_vars(stop_recording_body)
    /\ \A r \in Single : SF_vars(start_recording_in_thread(r))
    /\ \A r \in Single : SF_vars(rwp_poll_exit(r))

\* one start request and any number of stop requests and deletions,
\* under fair scheduling
FairSpec == Init /\ [][NextOf(Single)]_vars /\ Fairness


\* ================================================================ claims
CapturePcs ==
    {"rec_load", "rec_dev", "rec_start", "rec_poll", "rec_sleep",
     "rec_after", "rec_save"}

StatusEdges ==
    {<<"initialized", "recording">>} \cup ({"recording"} \X Terminal)

Live(r) == session[r].status /= "absent"

\* C1: in every reachable state at most one RecordingSession has
\* status "recording".
C1_AtMostOneRecording ==
    Cardinality({r \in Req : session[r].status = "recording"}) <= 1

\* C2: a start request whose admission check runs after another start
\* request was accepted, and before that request's session reached a
\* terminal status, is rejected.
C2_SecondStartRejected ==
    [][\A r \in Req :
         ( /\ hpc[r] = "locked"
           /\ hpc'[r] /= "locked"
           /\ \E q \in Req \ {r} :
                /\ hpc[q] = "accepted"
                /\ session[q].status \in {"initialized", "recording"} )
         => hpc'[r] = "rejected"]_vars

\* C3: a start request that finds a recording session in the slot is
\* rejected and changes no state: the slot, every session, every worker
\* thread, every stop flag and the disk stay as they are, and the request
\* never gets a session or a worker.
C3_RejectedStartChangesNothing ==
    /\ [][\A r \in Req :
            ( /\ hpc[r] = "locked"
              /\ hpc'[r] /= "locked"
              /\ current_recording_session /= None
              /\ session[current_recording_session].status = "recording" )
            => /\ hpc'[r] = "rejected"
               /\ UNCHANGED <<current_recording_session, session,
                              should_stop, wpc, wloc, disk>>]_vars
    /\ [](\A r \in Req :
            hpc[r] = "rejected" => ~Live(r) /\ wpc[r] = "none")

\* C3 witness: a start request has been rejected while another session
\* is recording in the slot.
C3_Witness ==
    \E r \in Req :
        /\ hpc[r] = "rejected"
        /\ current_recording_session /= None
        /\ current_recording_session /= r
        /\ session[current_recording_session].status = "recording"

\* C4: at any instant at most one worker is inside
\* AudioRecorder.record_with_playback.
C4_AtMostOneCapturing ==
    Cardinality({r \in Req : wpc[r] \in CapturePcs}) <= 1

\* C5: every change of a session's status follows an edge of
\* initialized -> recording -> {completed, error, stopped}.
C5_StatusFollowsGraph ==
    [][\A r \in Req :
         ( /\ Live(r)
           /\ session'[r].status /= "absent"
           /\ session'[r].status /= session[r].status )
         => <<session[r].status, session'[r].status>> \in StatusEdges]_vars

\* C6: whenever the lock is free, a session's end_time is set if and only
\* if its status is completed, error or stopped.
C6_EndTimeIffTerminal ==
    recording_lock = Free =>
        \A r \in Req :
            Live(r) =>
                (session[r].end_time /= None
                    <=> session[r].status \in Terminal)

\* C7: a session's files list is empty while its status is initialized,
\* recording or error, and every entry of a files list is the metadata
\* record of a verified file, never an expected path. Stated for the
\* states in which the lock is free, the only ones a status request sees.
C7_FilesOnlyVerified ==
    recording_lock = Free =>
        \A r \in Req :
            /\ session[r].status \in {"initialized", "recording", "error"}
                   => session[r].files = <<>>
            /\ \A i \in DOMAIN session[r].files :
                   session[r].files[i].kind = "meta"

\* C8: every acknowledged stop request (the step that takes a session from
\* recording to stopped) leaves the should_stop flag of that session's
\* recorder set.
C8_StopAckSetsFlag ==
    [][\A r \in Req :
         (session[r].status = "recording" /\ session'[r].status = "stopped")
         => should_stop'[r]]_vars

\* C9: after a stop request is acknowledged for a session, its worker
\* enters the body of the poll loop at most two more times.
C9_StopObservedWithinTwoPolls ==
    \A r \in Req : polls_after_stop[r] <= 2

\* C10: a stop request handled when the slot is empty or holds a session
\* whose status is not recording answers "No active recording session" and
\* changes neither the slot, nor a session, nor a stop flag.
C10_RefusedStopChangesNothing ==
    [][( /\ stop_pc = "locked"
         /\ stop_pc' /= "locked"
         /\ \/ current_recording_session = None
            \/ session[current_recording_session].status /= "recording" )
       => /\ stop_response' = "no_active"
          /\ UNCHANGED <<current_recording_session, session, should_stop,
                         wpc, disk>>]_vars

\* C10 witness: a stop request has been refused while the slot holds a
\* session that was stopped before and whose recorder exists.
C10_Witness ==
    /\ stop_response = "no_active"
    /\ current_recording_session /= None
    /\ session[current_recording_session].status = "stopped"
    /\ session[current_recording_session].recorder
    /\ ~should_stop[current_recording_session]
\* C11: when the worker finalizes a session whose capture returned True,
\* the final status is stopped if and only if the poll loop ended because
\* the stop flag was observed; after a natural end of the device or the
\* expiry of the duration it is completed.
C11_StoppedIffStopObserved ==
    [][\A r \in Req :
         (wpc[r] = "fin_locked" /\ wpc'[r] = "verify" /\ wloc[r].success)
             => /\ session'[r].status \in {"stopped", "completed"}
                /\ session'[r].status = "stopped"
                       <=> wloc[r].loop_end = "stop"]_vars

\* C12: every worker ends by emptying the slot while it holds the lock;
\* from the moment it has left its last block that writes the session it
\* only takes the lock and empties the slot, and it stops there; no other
\* step ever empties the slot.
C12_WorkerEndsByClearingSlot ==
    [][/\ \A r \in Req :
            /\ (wpc[r] /= "done" /\ wpc'[r] = "done")
                   => /\ wpc[r] = "clear_locked"
                      /\ recording_lock = WorkerThread(r)
                      /\ current_recording_session' = None
            /\ (wpc[r] = "clear" /\ wpc'[r] /= "clear")
                   => /\ wpc'[r] = "clear_locked"
                      /\ recording_lock' = WorkerThread(r)
                      /\ session'[r] = session[r]
                      /\ current_recording_session'
                             = current_recording_session
            /\ (wpc[r] = "clear_locked" /\ wpc'[r] /= "clear_locked")
                   => wpc'[r] = "done"
            /\ wpc[r] = "done" => wpc'[r] = "done"
       /\ (current_recording_session /= None
              /\ current_recording_session' = None)
             => \E r \in Req : /\ wpc[r] = "clear_locked"
                                /\ wpc'[r] = "done"
                                /\ recording_lock = WorkerThread(r)]_vars

\* a worker has run to its end and the slot is empty
C12_Witness ==
    \E r \in Req : /\ hpc[r] = "accepted"
                    /\ wpc[r] = "done"
                    /\ current_recording_session = None

\* C13: once an accepted start request has returned and before its
\* worker has taken a step, a status query answers with the session of
\* that request, not with the idle marker.
C13_AcceptedStartInstalledSession ==
    \A r \in Req :
        (hpc[r] = "accepted" /\ wpc[r] = "begin" /\ recording_lock = Free)
            => /\ StatusSnapshot.kind = "session"
               /\ StatusSnapshot.sid = r

\* C14: a status response with a terminal status carries the end_time and
\* the files that the session has once its worker has left its last
\* writing block.
C14_NoTornSnapshot ==
    \A r \in Req :
        (/\ wpc[r] \in {"clear", "clear_locked"}
         /\ status_response.kind = "session"
         /\ status_response.sid = r
         /\ status_response.status \in Terminal)
            => /\ status_response.end_time = session[r].end_time
               /\ status_response.files = session[r].files

\* C15: every answer of the status query has status idle or recording.
C15_StatusIdleOrRecording ==
    status_response.kind /= "none"
        => status_response.status \in {"idle", "recording"}

\* the threads whose next statement reads or writes the slot or a
\* session's status, start_time, end_time, files or error
Accessing ==
    {StartThread(r) : r \in {q \in Req : hpc[q] \in {"locked", "respond"}}}
        \cup {WorkerThread(r) :
                 r \in {q \in Req :
                          wpc[q] \in {"begin_locked", "fin_locked", "verify",
                                      "stat", "exc_locked", "clear_locked"}}}
        \cup (IF stop_pc = "locked" THEN {StopThread} ELSE {})

\* C16: a thread about to read or write the slot or the status,
\* start_time, end_time, files or error of a session holds recording_lock.
C16_AccessUnderLock ==
    \A th \in Accessing : recording_lock = th

\* the statements of the worker inside a `with recording_lock:` block
WorkerLockedPcs ==
    {"begin_locked", "fin_locked", "verify", "stat", "exc_locked",
     "clear_locked"}

\* C17: the lock is held only by a thread inside one of its lock blocks,
\* never by a worker that is capturing or sleeping in the poll loop, and
\* a held lock is always released again, so that it is free infinitely
\* often for the requests that wait for it.
C17_LockHeldOnlyInBlocks ==
    /\ [](\A r \in Req :
            /\ recording_lock = WorkerThread(r)
                   <=> wpc[r] \in WorkerLockedPcs
            /\ recording_lock = StartThread(r) <=> hpc[r] = "locked"
            /\ wpc[r] \in CapturePcs => recording_lock /= WorkerThread(r))
    /\ [](recording_lock = StopThread <=> stop_pc = "locked")
    /\ (recording_lock /= Free) ~> (recording_lock = Free)

\* the worker holds the lock inside its finalization block, at the
\* statement that can raise
C17_Witness ==
    \E r \in Req : /\ recording_lock = WorkerThread(r)
                    /\ wpc[r] = "stat"
                    /\ stop_pc = "idle"

\* the worker of request r is in a block entered after an exception: the
\* capture returned False (it caught one), or the except block runs
Raised(r) ==
    \/ wpc[r] \in {"fin_locked", "verify"} /\ ~wloc[r].success
    \/ wpc[r] = "exc_locked"

\* C18: when an exception was raised while the worker resolved the
\* devices or captured, the worker leaves its last writing block with
\* the session in status error and with an error message.
C18_ExceptionEndsInError ==
    [][\A r \in Req :
         (Raised(r) /\ wpc'[r] = "clear")
             => /\ session'[r].status = "error"
                /\ session'[r].error /= NoError]_vars

\* C19: under fair scheduling, and with a capture device that does not
\* stay active for ever, the session of every accepted start request
\* reaches a terminal status, and a session with a terminal status is
\* followed by the end of its worker with the slot empty.
C19_AcceptedStartTerminates ==
    \A r \in Single :
        /\ (hpc[r] \in {"respond", "accepted"} /\ wpc[r] /= "done")
               ~> (session[r].status \in Terminal)
        /\ (session[r].status \in Terminal)
               ~> (wpc[r] = "done" /\ current_recording_session = None)

\* the start was accepted and its worker has ended
C19_Witness ==
    \E r \in Single : /\ hpc[r] = "accepted"
                       /\ wpc[r] = "done"
                       /\ recording_lock = Free
                       /\ disk /= {}

\* C20: two successive status answers for the same session that both
\* show it recording report elapsed seconds that are at least 0 and do
\* not decrease; get_elapsed_seconds is 0 for a session that is not
\* recording, and an answer whose status is not recording carries no
\* elapsed and progress fields.
C20_ElapsedMonotone ==
    /\ [][(/\ status_response.status = "recording"
            /\ status_response'.status = "recording"
            /\ status_response'.sid = status_response.sid)
              => /\ status_response.has_elapsed
                 /\ status_response'.has_elapsed
                 /\ status_response.elapsed >= 0
                 /\ status_response'.elapsed >= status_response.elapsed]_vars
    /\ [](\A r \in Req :
            (Live(r) /\ session[r].status /= "recording")
                => get_elapsed_seconds(session[r]) = 0)
    /\ [](status_response.status /= "recording"
            => ~status_response.has_elapsed)

\* a status answer for a recording session, taken after the clock moved
C20_Witness ==
    /\ status_response.status = "recording"
    /\ status_response.elapsed = MaxTime
    /\ \E r \in Req : Live(r) /\ session[r].status = "stopped"

\* C21: the verification loop visits the three expected paths in order;
\* a path that is on disk adds its metadata record to the end of the
\* verified list, a path that is not on disk adds nothing, no visit
\* raises or changes the status, and the list built so is the one stored
\* in the session.
C21_VerifiedAreExisting ==
    [][\A r \in Req :
         /\ (wpc[r] = "verify" /\ wpc'[r] = "verify"
                               /\ wloc'[r] /= wloc[r])
                => /\ session[r].files[wloc[r].vidx].file \notin disk
                   /\ wloc'[r].verified = wloc[r].verified
                   /\ wloc'[r].vidx = wloc[r].vidx + 1
         /\ (wpc[r] = "stat" /\ wpc'[r] /= "stat")
                => /\ wpc'[r] = "verify"
                   /\ session[r].files[wloc[r].vidx].file \in disk
                   /\ wloc'[r].verified =
                          Append(wloc[r].verified,
                                 Meta(session[r].start_time, wloc[r].vidx))
                   /\ wloc'[r].vidx = wloc[r].vidx + 1
         /\ (wpc[r] \in {"verify", "stat"})
                => session'[r].status = session[r].status
         /\ (wpc[r] = "verify" /\ wpc'[r] = "clear")
                => session'[r].files = wloc[r].verified]_vars

\* C22: a startup appends one crash record when the persisted document
\* says running and leaves the crashes list as loaded otherwise, and the
\* new process is marked running; so a startup after a clean shutdown
\* appends nothing and a startup after an abrupt termination appends
\* exactly one record.
C22_CrashIffWasRunning ==
    [][(proc /= "up" /\ proc' = "up")
         => LET was == crash_file.kind = "doc" /\ crash_file.data.running
                before == IF crash_file.kind = "doc"
                          THEN crash_file.data.crashes ELSE <<>>
                after == crash_data'.crashes
            IN  /\ crash_data'.running
                /\ was => /\ Len(after) = Len(before) + 1
                          /\ SubSeq(after, 1, Len(before)) = before
                /\ ~was => after = before
                /\ proc = "ended" => after = before
                /\ proc = "killed" => Len(after) = Len(before) + 1]_vars

\* C23 as stated: mark_clean_shutdown sets running to false, adds one to
\* clean_shutdowns, sets last_shutdown, leaves crashes and last_start as
\* they were, and the file on disk then holds that document.
C23_CleanShutdownWritten ==
    [][(proc = "up" /\ proc' = "marked")
         => /\ ~crash_data'.running
            /\ crash_data'.clean_shutdowns = crash_data.clean_shutdowns + 1
            /\ crash_data'.last_shutdown = now
            /\ crash_data'.crashes = crash_data.crashes
            /\ crash_data'.last_start = crash_data.last_start
            /\ crash_file' = [kind |-> "doc", data |-> crash_data']]_vars

\* C23 amended: mark_clean_shutdown sets running to false, adds one to
\* clean_shutdowns, sets last_shutdown and leaves crashes and last_start
\* as they were; the file then holds that document unless the write
\* raised, in which case the file is as before or unreadable and the
\* call still returns.
C23_CleanShutdownBestEffort ==
    [][(proc = "up" /\ proc' = "marked")
         => /\ ~crash_data'.running
            /\ crash_data'.clean_shutdowns = crash_data.clean_shutdowns + 1
            /\ crash_data'.last_shutdown = now
            /\ crash_data'.crashes = crash_data.crashes
            /\ crash_data'.last_start = crash_data.last_start
            /\ \/ crash_file' = [kind |-> "doc", data |-> crash_data']
               \/ crash_file' = crash_file
               \/ crash_file'.kind = "unreadable"]_vars

\* a clean shutdown of a process that had recorded a crash, a second
\* after its start, with the document written
C23_Witness ==
    /\ proc = "marked"
    /\ crash_data.crashes /= <<>>
    /\ crash_data.last_shutdown > crash_data.last_start
    /\ crash_file = [kind |-> "doc", data |-> crash_data]

\* C24: the crashes list of the running process begins with every crash
\* record appended so far, in the order of their appending: no record is
\* ever removed or rewritten.
C24_CrashesAppendOnly ==
    proc \in {"up", "marked"}
        => /\ Len(crash_history) <= Len(crash_data.crashes)
           /\ SubSeq(crash_data.crashes, 1, Len(crash_history))
                  = crash_history

\* the names in failed_files
FailedNames == {transfer.failed_files[i].file : i \in DOMAIN transfer.failed_files}

\* the number of files the transfer loop has dealt with
Handled ==
    IF transfer.pc = "loop"
    THEN transfer.idx - 1
    ELSE Len(transfer.files_to_transfer)

\* C25: in a transfer call that reached the loop, every file dealt with
\* is named in exactly one of transferred_files and failed_files, no name
\* is listed twice, and after the loop the two lists together have as
\* many entries as there were files.
C25_TransferredOrFailed ==
    transfer.files_to_transfer /= <<>>
        => /\ Len(transfer.transferred_files) + Len(transfer.failed_files)
                 = Handled
           /\ Cardinality(Range(transfer.transferred_files))
                 = Len(transfer.transferred_files)
           /\ Cardinality(FailedNames) = Len(transfer.failed_files)
           /\ Range(transfer.transferred_files) \cap FailedNames = {}
           /\ Range(transfer.transferred_files) \cup FailedNames
                 = {transfer.files_to_transfer[i] : i \in 1..Handled}

\* an upload of three files finished with transferred and failed files
C25_Witness ==
    /\ transfer.response = "ok"
    /\ transfer.protocol = "http"
    /\ Len(transfer.files_to_transfer) = 3
    /\ Len(transfer.transferred_files) = 1
    /\ Len(transfer.failed_files) = 2
    /\ \E i \in 1..2 : transfer.failed_files[i].error.kind = "exception"

\* a step of the transfer call: the only steps that change its locals
TransferStep == transfer' /= transfer

\* C26: a transfer request that names a session while the storage server
\* is disabled or has no host, no username or no remote_path is answered
\* with the configuration error before the loop: no file is attempted,
\* none is listed and no local file is removed.
C26_IncompleteConfigRejected ==
    [][(/\ transfer.pc \in {"idle", "done"}
        /\ TransferStep
        /\ transfer'.session_id /= None
        /\ \/ ~storage_config.enabled
           \/ ~storage_config.host
           \/ ~storage_config.username
           \/ ~storage_config.remote_path)
          => /\ transfer'.pc = "done"
             /\ transfer'.response = "configuration error"
             /\ transfer'.last_outcome = NoOutcome
             /\ transfer'.files_to_transfer = <<>>
             /\ transfer'.transferred_files = <<>>
             /\ transfer'.failed_files = <<>>
             /\ transfer'.deleted_files = <<>>
             /\ disk' = disk]_vars

\* a request was rejected although only remote_path is missing and the
\* session has files
C26_Witness ==
    /\ transfer.response = "configuration error"
    /\ storage_config.enabled
    /\ storage_config.host
    /\ storage_config.username
    /\ ~storage_config.remote_path
    /\ FilesToTransfer(transfer.session_id) /= <<>>

\* C27: the loop starts at the first selected file; each of its steps
\* deals with the file at the current position, records it once, and goes
\* on to the next position whatever the outcome was; it is left only
\* after the last file, and the selection does not change meanwhile.
C27_EachFileAttemptedOnce ==
    [][/\ (transfer.pc /= "loop" /\ transfer'.pc = "loop")
             => /\ transfer'.idx = 1
                /\ transfer'.transferred_files = <<>>
                /\ transfer'.failed_files = <<>>
       /\ (transfer.pc = "loop" /\ TransferStep)
             => LET i == transfer.idx
                    N == Len(transfer.files_to_transfer)
                    f == transfer.files_to_transfer[i]
                IN  /\ i \in 1..N
                    /\ transfer'.files_to_transfer
                           = transfer.files_to_transfer
                    /\ \/ /\ transfer'.transferred_files
                                = Append(transfer.transferred_files, f)
                          /\ transfer'.failed_files = transfer.failed_files
                       \/ /\ transfer'.transferred_files
                                = transfer.transferred_files
                          /\ Len(transfer'.failed_files)
                                = Len(transfer.failed_files) + 1
                          /\ SubSeq(transfer'.failed_files, 1,
                                    Len(transfer.failed_files))
                                = transfer.failed_files
                          /\ transfer'.failed_files[
                                 Len(transfer'.failed_files)].file = f
                    /\ IF i < N
                       THEN transfer'.pc = "loop" /\ transfer'.idx = i + 1
                       ELSE transfer'.pc /= "loop"]_vars

\* the first of three files raised and the last one was transferred
C27_Witness ==
    /\ transfer.response = "ok"
    /\ Len(transfer.files_to_transfer) = 3
    /\ transfer.failed_files /= <<>>
    /\ transfer.failed_files[1].file = transfer.files_to_transfer[1]
    /\ transfer.failed_files[1].error.kind = "exception"
    /\ transfer.files_to_transfer[3] \in Range(transfer.transferred_files)

C29_DeletedAreTransferred ==
    [][TransferStep
          => /\ Range(transfer'.deleted_files)
                   \subseteq Range(transfer'.transferred_files)
             /\ Range(transfer'.deleted_files) \cap FailedNames' = {}
             /\ ~transfer'.delete_after_transfer
                   => transfer'.deleted_files = <<>>
             /\ (disk \ disk') \subseteq Range(transfer.transferred_files)
             /\ (disk \ disk') \cap FailedNames = {}
             /\ (transfer.pc /= "delete" \/ ~transfer.delete_after_transfer)
                   => disk' = disk
             /\ transfer.pc = "delete"
                   => IF transfer.idx < Len(transfer.files_to_transfer)
                      THEN /\ transfer'.pc = "delete"
                           /\ transfer'.idx = transfer.idx + 1
                      ELSE /\ transfer'.pc = "done"
                           /\ transfer'.response = "ok"]_vars

\* a call with transferred and failed files ended normally after one
\* removal failed and a later one worked
C29_Witness ==
    /\ transfer.response = "ok"
    /\ transfer.delete_after_transfer
    /\ transfer.failed_files /= <<>>
    /\ Len(transfer.transferred_files) = 2
    /\ transfer.deleted_files = <<transfer.transferred_files[2]>>
    /\ transfer.transferred_files[1] \in disk

\* C30: a step of a transfer call changes neither the current-session
\* slot, nor the lock, nor any session, stop flag or thread of the
\* recorder, and the call can take its next step in every state, whoever
\* holds recording_lock and whatever phase a recording is in.
C30_TransferIndependentOfRecorder ==
    /\ [](ENABLED transfer_recording)
    /\ [][TransferStep => UNCHANGED session_vars]_vars

\* a transfer call is inside its loop while the worker of a recording
\* holds the lock to finalize the session
C30_Witness ==
    \E r \in Req : /\ recording_lock = WorkerThread(r)
                    /\ wpc[r] = "fin_locked"
                    /\ session[r].status = "recording"
                    /\ transfer.pc = "loop"
                    /\ transfer.idx = 2

\* C31: a call of purge_old_logs(days) removes the files that match the
\* log pattern, are not hidden and were modified strictly before now
\* minus days, and no other; deleted_count is their number, which is 0
\* on an empty directory.
C31_PurgeDeletesExactlyOld ==
    [][log_result'.op = "purge"
          => LET days == log_result'.days
                 old == {n \in 1..MaxFiles :
                            /\ log_dir[n].kind = "log"
                            /\ log_dir[n].mtime < now - days}
             IN  /\ \A n \in 1..MaxFiles :
                       log_dir'[n] = IF n \in old THEN Absent
                                                  ELSE log_dir[n]
                 /\ log_result'.deleted_count = Cardinality(old)
                 /\ Range(log_result'.deleted_files) = old
                 /\ (\A n \in 1..MaxFiles : log_dir[n] = Absent)
                       => log_result'.deleted_count = 0]_vars

\* a purge removed one file and kept a log file modified exactly at the
\* cutoff
C31_Witness ==
    /\ log_result.op = "purge"
    /\ log_result.deleted_count = 1
    /\ \E n \in 1..MaxFiles : /\ log_dir[n].kind = "log"
                              /\ log_dir[n].mtime = now - log_result.days

\* C38: read_log on a file of L lines, asked for `lines` lines with
\* `offset` lines skipped at the end, returns the lines at positions
\* max(0, L - offset - lines) up to but excluding max(0, L - offset): at
\* most `lines` lines, and none when offset >= L.
C38_ReadLogBlock ==
    log_result.op = "read"
        => LET L == log_result.L
               from == IF L - log_result.offset - log_result.lines > 0
                       THEN L - log_result.offset - log_result.lines
                       ELSE 0
               to == IF L - log_result.offset > 0
                     THEN L - log_result.offset
                     ELSE 0
           IN  /\ log_result.returned = [i \in 1..(to - from) |-> from + i]
               /\ Len(log_result.returned) <= log_result.lines
               /\ log_result.offset >= L => log_result.returned = <<>>

\* C32: the step in which a start request is answered with a validation
\* error changes no session, no worker thread, no stop flag, no file and
\* neither the slot nor the lock, and the request never has a session or
\* a worker afterwards.
C32_InvalidStartChangesNothing ==
    /\ [](\A r \in Req : hpc[r] = "invalid"
              => session[r] = NoSession /\ wpc[r] = "none")
    /\ [][\A r \in Req :
             (hpc[r] /= "invalid" /\ hpc'[r] = "invalid")
                => UNCHANGED <<current_recording_session, recording_lock,
                               session, should_stop, wpc, wloc, disk>>]_vars

\* a start request failed validation while the session of another one is
\* in the slot and recording
C32_Witness ==
    \E r \in Req :
        /\ hpc[r] = "invalid"
        /\ current_recording_session \in Req \ {r}
        /\ session[current_recording_session].status = "recording"

\* C33: when an accepted start request creates its session, the new id
\* orders strictly after the id of every session created before it, so
\* that no two sessions have the same id.
C33_IdsDistinctAndOrdered ==
    [][\A r \in Req :
          (~Live(r) /\ session'[r].status = "initialized")
             => \A q \in Req \ {r} :
                   Live(q) => session'[r].id > session[q].id]_vars

\* C34: a session whose status is recording is the session in the slot,
\* so that a status query answers with it and a stop request finds it.
C34_RecordingSessionInSlot ==
    \A r \in Req :
        session[r].status = "recording"
            => /\ current_recording_session = r
               /\ StatusSnapshot /= IdleMarker
               /\ ~(\/ current_recording_session = None
                    \/ session[current_recording_session].status
                           /= "recording")

\* C35: when the capture has written its three files, the timestamp in
\* their names is the session's start_time to the second, so that the
\* three paths finalization expects are the files just written.
C35_SameBasePath ==
    [][\A r \in Req :
          (wpc[r] = "rec_save" /\ wpc'[r] = "fin" /\ wloc'[r].success)
             => /\ wloc[r].timestamp = session[r].start_time
                /\ \A i \in 1..3 :
                      File(session[r].start_time, i) \in disk']_vars

\* C36: a worker whose poll loop ended because the stop flag was set
\* calls the device's stop primitive, not its wait; when that call
\* raises, finalization still gives the session a terminal status and an
\* end_time, which it keeps until the worker empties the slot, and under
\* fair scheduling the worker does end with the slot empty.
C36_StopHaltsDeviceAndFinalizes ==
    /\ [][\A r \in Single :
             /\ (/\ wpc[r] = "rec_after"
                 /\ wpc'[r] /= "rec_after"
                 /\ wloc[r].loop_end = "stop")
                   => wloc'[r].halt \in {"stop", "stop_raised"}
             /\ (/\ wpc[r] = "fin_locked"
                 /\ wpc'[r] /= "fin_locked"
                 /\ wloc[r].halt = "stop_raised")
                   => /\ session'[r].status \in Terminal
                      /\ session'[r].end_time /= None]_vars
    /\ [](\A r \in Single :
              (should_stop[r] /\ wpc[r] \in {"clear", "clear_locked"})
                  => /\ session[r].status \in Terminal
                     /\ session[r].end_time /= None)
    /\ \A r \in Single :
          (wloc[r].halt = "stop_raised")
              ~> (wpc[r] = "done" /\ current_recording_session = None)

\* the stop primitive raised after a loop ended by the flag, and the
\* worker is about to finalize the stopped session
C36_Witness ==
    \E r \in Single : /\ wpc[r] = "fin_locked"
                       /\ wloc[r].halt = "stop_raised"
                       /\ should_stop[r]
                       /\ session[r].status = "stopped"

\* C37 as stated: a startup that finds running set appends a record with
\* the last_start read from the file, then sets running and the new
\* last_start, and the file on disk then holds the updated document.
C37_CrashRecordWritten ==
    [][(/\ proc /= "up"
        /\ proc' = "up"
        /\ crash_file.kind = "doc"
        /\ crash_file.data.running)
          => LET rec == crash_data'.crashes[Len(crash_data'.crashes)]
             IN  /\ Len(crash_data'.crashes)
                       = Len(crash_file.data.crashes) + 1
                 /\ rec.last_start = crash_file.data.last_start
                 /\ rec.type = "unexpected_shutdown"
                 /\ crash_data'.running
                 /\ crash_data'.last_start = now
                 /\ crash_file' = [kind |-> "doc", data |-> crash_data']]_vars

\* C37 amended: as above, but the file holds the updated document unless
\* the write raised, in which case the file is as before or unreadable
\* and the startup goes on with the document in memory.
C37_CrashRecordBestEffort ==
    [][(/\ proc /= "up"
        /\ proc' = "up"
        /\ crash_file.kind = "doc"
        /\ crash_file.data.running)
          => LET rec == crash_data'.crashes[Len(crash_data'.crashes)]
             IN  /\ Len(crash_data'.crashes)
                       = Len(crash_file.data.crashes) + 1
                 /\ rec.last_start = crash_file.data.last_start
                 /\ rec.type = "unexpected_shutdown"
                 /\ crash_data'.running
                 /\ crash_data'.last_start = now
                 /\ \/ crash_file' = [kind |-> "doc", data |-> crash_data']
                    \/ crash_file' = crash_file
                    \/ crash_file'.kind = "unreadable"]_vars

\* a process started after a crash: its record carries the start time of
\* the process before, which is earlier than its own, and is on disk
C37_Witness ==
    /\ proc = "up"
    /\ crash_data.crashes /= <<>>
    /\ crash_data.crashes[Len(crash_data.crashes)].last_start
           < crash_data.last_start
    /\ crash_data.crashes[Len(crash_data.crashes)].last_start /= None
    /\ crash_data.crashes[Len(crash_data.crashes)].detected_at
           = crash_data.last_start
    /\ crash_file = [kind |-> "doc", data |-> crash_data]

\* the answer the handler of the last response gives when the stored
\* password is pw and everything else is as it is
ResponseWith(pw) ==
    IF config_response.op = "get_config"
    THEN get_config_body(storage_config, pw)
    ELSE IF config_response.op = "get_storage_config"
    THEN get_storage_config_body(storage_config, pw)
    ELSE put_storage_config_body(storage_config, pw,
                                 config_response.code = 200)

\* C40: no answer of GET /config, GET /storage/config or PUT
\* /storage/config shows a stored password in clear: the answer is the
\* same whatever the value of the stored password is.
C40_PasswordNeverReturned ==
    (config_response.op /= "none" /\ password.kind = "clear")
        => /\ config_response.password.kind /= "clear"
           /\ \A pw \in Secrets : ResponseWith(pw) = config_response

\* C39: for a playback file of L >= 1 samples and a requested duration
\* of D = duration * playback_sr samples, the buffer handed to the
\* playback device has exactly D samples, the file repeated from its
\* start as often as needed and cut at D.
C39_BufferHasRequestedLength ==
    playback.op = "played"
        => LET D == playback.duration * playback.playback_sr
           IN  /\ Len(playback.buffer) = D
               /\ playback.buffer
                     = [i \in 1..D |-> ((i - 1) % playback.L) + 1]

====
